---- MODULE Spec2Model ----
(***************************************************************************)
(* Model of the fusion core of burn-fusion:                                *)
(*   - OptimizationIndex (stream/store/index.rs): hash buckets of          *)
(*     (operation, slot) pairs plus the slot list `starters`;              *)
(*   - MultiStream (stream/multi.rs): register / drain over the owned      *)
(*     (stream, processor) items, with the Processor loop of the design    *)
(*     document run step by step.                                          *)
(***************************************************************************)
EXTENDS Integers, Sequences, FiniteSets, TLC

VARIABLES
    mapping,    \* OptimizationIndex.mapping : key -> sequence of [op, index]
    starters,   \* OptimizationIndex.starters: sequence of sequences of ids
    found,      \* value returned by the last call on the index (find)
    panicked,   \* TRUE once an expect() has failed
    inserted,   \* history: successful inserts, [first |-> op, id |-> id]
    lastCall,   \* history: the last call made on the index
    items,      \* MultiStream.items: sequence of [stream |-> sequence of ops]
    catalog,    \* OptimizationStore catalog: defining sequence of each id
    handles,    \* HandleContainer: tensor id -> value
    execLog,    \* history: executed units, in execution order
    registered, \* history: operations passed to register, in call order
    pc,         \* "idle" | "proc" (inside Processor::process)
    mode,       \* ExecutionMode of the running process call
    caller,     \* which MultiStream method runs the processor
    cur,        \* position of the item being processed
    stopped,    \* the Lazy loop has decided to return
    procCalls   \* history: process invocations made by the last call, with
                \* the stream and log lengths at entry

indexVars  == <<mapping, starters, found, panicked, inserted, lastCall>>
streamVars == <<items, catalog, handles, execLog, registered, pc, mode,
                caller, cur, stopped, procCalls>>
vars == <<mapping, starters, found, panicked, inserted, lastCall,
          items, catalog, handles, execLog, registered, pc, mode,
          caller, cur, stopped, procCalls>>

----------------------------------------------------------------------------
\* Bounds of the exploration.

MaxInserts == 3
HashMod == 3
MaxOpts == 2
MaxRegs == 2

----------------------------------------------------------------------------
\* Operation descriptors.

NoTensor == 99

ScalarTags == {"AddScalar"}

BinaryOps(tag, l, r, o) ==
    [tag |-> tag, lhs |-> l, rhs |-> r, out |-> o, scalar |-> "none"]

ScalarOps(tag, l, s, o) ==
    [tag |-> tag, lhs |-> l, rhs |-> NoTensor, out |-> o, scalar |-> s]

ops_1 == BinaryOps("Add", 0, 1, 2)

ops_2 == ScalarOps("AddScalar", 0, "5.0", 2)

ops_3 == BinaryOps("Sub", 0, 1, 2)

ops_4 == BinaryOps("Add", 2, 1, 0)

ops_nan == ScalarOps("AddScalar", 0, "NaN", 2)

Ops == {ops_1, ops_2, ops_3, ops_4, ops_nan}

\* f32 == f32: NaN is not equal to anything, itself included.
FloatEq(x, y) == x # "NaN" /\ y # "NaN" /\ x = y

\* derive(PartialEq) on the descriptor: same variant, fields pairwise equal.
OpEq(a, b) ==
    /\ a.tag = b.tag
    /\ a.lhs = b.lhs
    /\ a.out = b.out
    /\ IF a.tag \in ScalarTags THEN FloatEq(a.scalar, b.scalar)
                               ELSE a.rhs = b.rhs

\* Hash of a descriptor: fed by the tensor descriptions only, so that
\* Add and Sub over the same operands collide.
OpHash(op) ==
    (op.lhs + 3 * op.out + (IF op.tag \in ScalarTags THEN 0 ELSE 7 * op.rhs))
        % HashMod

Min(S) == CHOOSE x \in S : \A y \in S : x <= y

Contains(seq, x) == \E i \in DOMAIN seq : seq[i] = x

----------------------------------------------------------------------------
\* OptimizationIndex.

stream_key(ops) == OpHash(ops)

\* Variant: the first entry of the bucket is taken without the equality check.
find_trusting_hash(ops) ==
    LET key == stream_key(ops) IN
    IF key \notin DOMAIN mapping THEN <<>>
    ELSE LET values == mapping[key]
         IN IF values = <<>> THEN <<>>
            ELSE LET index == values[1].index
                 IN IF index < Len(starters) THEN starters[index + 1]
                                             ELSE <<>>

\* Variant: the slot is returned newest first.
find_newest_first(ops) ==
    LET key == stream_key(ops) IN
    IF key \notin DOMAIN mapping THEN <<>>
    ELSE LET values == mapping[key]
             hits == {i \in DOMAIN values : OpEq(values[i].op, ops)}
         IN IF hits = {} THEN <<>>
            ELSE LET slot == starters[values[Min(hits)].index + 1]
                 IN [i \in DOMAIN slot |-> slot[Len(slot) + 1 - i]]

find_starting_with(ops) ==
    LET key == stream_key(ops) IN
    IF key \notin DOMAIN mapping THEN <<>>
    ELSE LET values == mapping[key]
             hits == {i \in DOMAIN values : OpEq(values[i].op, ops)}
         IN IF values = <<>> THEN <<>>
            ELSE IF hits = {} THEN <<>>
            ELSE LET index == values[Min(hits)].index
                 IN IF index < Len(starters) THEN starters[index + 1]
                                             ELSE <<>>

\* Variants of insert_new_ops: an existing starter's slot is either
\* overwritten by the new id, or receives it at the front.
insert_new_ops_variant(ops, new_id, slotUpdate(_, _)) ==
    LET key == stream_key(ops) IN
    IF key \notin DOMAIN mapping
    THEN /\ starters' = Append(starters, <<new_id>>)
         /\ mapping' = mapping @@
                (key :> <<[op |-> ops, index |-> Len(starters)]>>)
         /\ panicked' = panicked
    ELSE LET values == mapping[key]
             hits == {i \in DOMAIN values : OpEq(values[i].op, ops)}
         IN IF hits = {}
            THEN /\ starters' = Append(starters, <<new_id>>)
                 /\ mapping' = [mapping EXCEPT ![key] =
                        Append(values, [op |-> ops, index |-> Len(starters)])]
                 /\ panicked' = panicked
            ELSE LET index == values[Min(hits)].index
                 IN /\ starters' = [starters EXCEPT ![index + 1] =
                                       slotUpdate(@, new_id)]
                    /\ mapping' = mapping
                    /\ panicked' = panicked

Overwrite(slot, new_id) == <<new_id>>

PushFront(slot, new_id) == <<new_id>> \o slot

insert_new_ops_overwriting(ops, new_id) ==
    insert_new_ops_variant(ops, new_id, Overwrite)

insert_new_ops_prepending(ops, new_id) ==
    insert_new_ops_variant(ops, new_id, PushFront)

\* Variant: the slot of a new starter is created without the id.
insert_new_ops_forgetting(ops, new_id) ==
    LET key == stream_key(ops) IN
    IF key \notin DOMAIN mapping
    THEN /\ starters' = Append(starters, <<>>)
         /\ mapping' = mapping @@
                (key :> <<[op |-> ops, index |-> Len(starters)]>>)
         /\ panicked' = panicked
    ELSE insert_new_ops_variant(ops, new_id, Append)

\* Variants of the collision branch: the id goes to the slot of the
\* bucket's first entry; or the new slot gets no bucket entry.
insert_new_ops_merging(ops, new_id) ==
    LET key == stream_key(ops) IN
    IF key \notin DOMAIN mapping
    THEN insert_new_ops_variant(ops, new_id, Append)
    ELSE /\ starters' = [starters EXCEPT ![mapping[key][1].index + 1] =
                            Append(@, new_id)]
         /\ mapping' = mapping
         /\ panicked' = panicked

insert_new_ops_orphaning(ops, new_id) ==
    LET key == stream_key(ops) IN
    IF key \in DOMAIN mapping
          /\ {i \in DOMAIN mapping[key] : OpEq(mapping[key][i].op, ops)} = {}
    THEN /\ starters' = Append(starters, <<new_id>>)
         /\ mapping' = mapping
         /\ panicked' = panicked
    ELSE insert_new_ops_variant(ops, new_id, Append)

\* Variant: an existing starter receives the id twice.
PushTwice(slot, new_id) == slot \o <<new_id, new_id>>

insert_new_ops_pushing_twice(ops, new_id) ==
    insert_new_ops_variant(ops, new_id, PushTwice)

\* Variant: a new starter's bucket entry points one slot too far.
insert_new_ops_off_by_one(ops, new_id) ==
    LET key == stream_key(ops) IN
    IF key \notin DOMAIN mapping
    THEN /\ starters' = Append(starters, <<new_id>>)
         /\ mapping' = mapping @@
                (key :> <<[op |-> ops, index |-> Len(starters) + 1]>>)
         /\ panicked' = panicked
    ELSE insert_new_ops_variant(ops, new_id, Append)

insert_new_ops(ops, new_id) ==
    LET key == stream_key(ops) IN
    IF key \notin DOMAIN mapping
    THEN \* New starter ops.
         /\ starters' = Append(starters, <<new_id>>)
         /\ mapping' = mapping @@
                (key :> <<[op |-> ops, index |-> Len(starters)]>>)
         /\ panicked' = panicked
    ELSE LET values == mapping[key]
             hits == {i \in DOMAIN values : OpEq(values[i].op, ops)}
         IN IF hits = {}
            THEN \* New with hash collision.
                 /\ starters' = Append(starters, <<new_id>>)
                 /\ mapping' = [mapping EXCEPT ![key] =
                        Append(values, [op |-> ops, index |-> Len(starters)])]
                 /\ panicked' = panicked
            ELSE \* New optimization for an existing starter.
                 LET index == values[Min(hits)].index
                 IN IF index < Len(starters)
                    THEN /\ starters' = [starters EXCEPT ![index + 1] =
                                            Append(@, new_id)]
                         /\ mapping' = mapping
                         /\ panicked' = panicked
                    ELSE /\ panicked' = TRUE
                         /\ UNCHANGED <<mapping, starters>>

\* Variant: the emptiness check comes after a slot has been created.
insert_failing_late(stream, id) ==
    IF stream = <<>>
    THEN /\ panicked' = TRUE
         /\ starters' = Append(starters, <<>>)
         /\ mapping' = mapping
    ELSE insert_new_ops(Head(stream), id)

insert(stream, id) ==
    IF stream = <<>>
    THEN /\ panicked' = TRUE
         /\ UNCHANGED <<mapping, starters>>
    ELSE insert_new_ops(Head(stream), id)

\* Variant: the returned slot is taken out of the index.
find_taking(ops) ==
    /\ found' = find_starting_with(ops)
    /\ starters' = [i \in DOMAIN starters |->
                       IF starters[i] = find_starting_with(ops) THEN <<>>
                       ELSE starters[i]]
    /\ UNCHANGED <<mapping, panicked>>

find(ops) ==
    /\ found' = find_starting_with(ops)
    /\ UNCHANGED <<mapping, starters, panicked>>

----------------------------------------------------------------------------
\* The index driven on its own: any interleaving of insert and find.

InitHandles == (0 :> 1) @@ (1 :> 2) @@ (2 :> 0)

NoOp == [tag |-> "none", lhs |-> NoTensor, rhs |-> NoTensor,
         out |-> NoTensor, scalar |-> "none"]

\* optimization_id_1, optimization_id_2
Ids == {0, 1}

\* Streams passed to insert: empty, one operation, or two operations.
IndexStreams ==
    {<<>>} \cup {<<op>> : op \in Ops} \cup {<<op, ops_1>> : op \in Ops}

InitIndexVars ==
    /\ mapping = <<>>
    /\ starters = <<>>
    /\ found = <<>>
    /\ panicked = FALSE
    /\ inserted = <<>>
    /\ lastCall = [kind |-> "new", op |-> NoOp, id |-> 0, len |-> 0,
                   repeated |-> FALSE]

\* Variant: the manager is built without any item.
InitStreamVars_without_item ==
    /\ items = <<>>
    /\ catalog = <<>>
    /\ handles = InitHandles
    /\ execLog = <<>>
    /\ registered = <<>>
    /\ pc = "idle"
    /\ mode = "Lazy"
    /\ caller = "none"
    /\ cur = 0
    /\ stopped = FALSE
    /\ procCalls = <<>>

InitStreamVars ==
    /\ items = <<[stream |-> <<>>]>>
    /\ catalog = <<>>
    /\ handles = InitHandles
    /\ execLog = <<>>
    /\ registered = <<>>
    /\ pc = "idle"
    /\ mode = "Lazy"
    /\ caller = "none"
    /\ cur = 0
    /\ stopped = FALSE
    /\ procCalls = <<>>

InitIndex == InitIndexVars /\ InitStreamVars

IndexInsert ==
    \E stream \in IndexStreams, id \in Ids :
        /\ ~panicked
        /\ Len(inserted) < MaxInserts
        /\ insert(stream, id)
        /\ inserted' = IF stream = <<>> THEN inserted
                       ELSE Append(inserted, [first |-> Head(stream), id |-> id])
        /\ lastCall' = [kind |-> "insert",
                        op |-> IF stream = <<>> THEN NoOp ELSE Head(stream),
                        id |-> id, len |-> Len(stream), repeated |-> FALSE]
        /\ found' = <<>>
        /\ UNCHANGED streamVars

\* repeated: the previous call was a find with the same operation.
IndexFind ==
    \E ops \in Ops :
        LET repeated == lastCall.kind = "find" /\ lastCall.op = ops
        IN /\ ~panicked
           /\ find(ops)
           /\ lastCall' = [kind |-> "find", op |-> ops, id |-> 0, len |-> 0,
                           repeated |-> repeated]
           /\ UNCHANGED inserted
           /\ UNCHANGED streamVars

NextIndex == IndexInsert \/ IndexFind

SpecIndex == InitIndex /\ [][NextIndex]_vars

----------------------------------------------------------------------------
\* Collaborators of MultiStream: relative streams, the stream buffer, the
\* backend's execution paths and the optimization store.

\* Relative form of an operation: the literal scalar operand is set to zero.
Canon(op) ==
    IF op.tag \in ScalarTags THEN [op EXCEPT !.scalar = "0.0"] ELSE op

\* Operations a caller registers (concrete scalar operands).
StreamOps == {ops_1, ops_2, ops_4}

\* Defining sequences the backend can supply, in relative form.
BackendOptimizations ==
    {<<ops_1>>, <<Canon(ops_2)>>, <<ops_1, Canon(ops_2)>>, <<ops_1, ops_4>>,
     <<ops_4, Canon(ops_2)>>}

ScalarVal(s) == IF s = "5.0" THEN 5 ELSE 0

\* Backend per-operation execution path.
ExecRaw(h, op) ==
    [h EXCEPT ![op.out] =
        IF op.tag = "Add" THEN h[op.lhs] + h[op.rhs]
        ELSE IF op.tag = "Sub" THEN h[op.lhs] - h[op.rhs]
        ELSE h[op.lhs] + ScalarVal(op.scalar)]

RECURSIVE RawRun(_, _)
RawRun(h, ops) ==
    IF ops = <<>> THEN h ELSE RawRun(ExecRaw(h, Head(ops)), Tail(ops))

\* Fused execution of an optimization bound to the concrete operations it
\* replaces: same effect as its defining sequence run one at a time.
ExecFused(h, id, bound) == RawRun(h, bound)

\* Stream::add
StreamAdd(stream, op) == Append(stream, op)

\* Variant: the head of the consumed prefix is left in the stream.
Consume_keeping_head(stream, count) == SubSeq(stream, count, Len(stream))

\* Stream consume(count): drops the leading count operations.
Consume(stream, count) == SubSeq(stream, count + 1, Len(stream))

NoMatch == 0 - 1

\* The defining sequence is an element-wise prefix of the relative stream.
IsPrefixMatch(def, stream) ==
    /\ Len(def) <= Len(stream)
    /\ \A i \in DOMAIN def : OpEq(def[i], Canon(stream[i]))

\* Steps b and c of the Processor loop: the longest matching candidate, the
\* first in list order among those of equal length.
BestMatch(stream) ==
    LET cands == find_starting_with(Canon(stream[1]))
        M == {k \in DOMAIN cands :
                /\ cands[k] < Len(catalog)
                /\ IsPrefixMatch(catalog[cands[k] + 1], stream)}
    IN IF M = {} THEN NoMatch
       ELSE LET best == CHOOSE k \in M :
                    \A j \in M :
                        \/ Len(catalog[cands[j] + 1]) < Len(catalog[cands[k] + 1])
                        \/ /\ Len(catalog[cands[j] + 1]) = Len(catalog[cands[k] + 1])
                           /\ k <= j
            IN cands[best]

CurStream == items[cur].stream

\* OptimizationStore register(sequence): catalog and index together.
StoreRegister ==
    \E seq \in BackendOptimizations :
        /\ pc = "idle"
        /\ ~panicked
        /\ Len(catalog) < MaxOpts
        /\ catalog' = Append(catalog, seq)
        /\ insert(seq, Len(catalog))
        /\ inserted' = Append(inserted, [first |-> Head(seq), id |-> Len(catalog)])
        /\ UNCHANGED <<found, lastCall, items, handles, execLog, registered,
                       pc, mode, caller, cur, stopped, procCalls>>

----------------------------------------------------------------------------
\* MultiStream.

\* Variant: the processor is run in Sync mode.
register_sync(ops_desc) ==
    /\ caller' = "register"
    /\ IF items # <<>>
       THEN /\ items' = [items EXCEPT ![1].stream = StreamAdd(@, ops_desc)]
            /\ pc' = "proc"
            /\ mode' = "Sync"
            /\ cur' = 1
            /\ procCalls' = <<[item |-> 1, mode |-> "Sync",
                               len |-> Len(items[1].stream) + 1,
                               logLen |-> Len(execLog)]>>
       ELSE /\ procCalls' = <<>>
            /\ UNCHANGED <<items, pc, mode, cur>>

\* Variant: the operation is put at the head of the stream.
register_pushing_front(ops_desc) ==
    /\ caller' = "register"
    /\ IF items # <<>>
       THEN /\ items' = [items EXCEPT ![1].stream = <<ops_desc>> \o @]
            /\ pc' = "proc"
            /\ mode' = "Lazy"
            /\ cur' = 1
            /\ procCalls' = <<[item |-> 1, mode |-> "Lazy",
                               len |-> Len(items[1].stream) + 1,
                               logLen |-> Len(execLog)]>>
       ELSE /\ procCalls' = <<>>
            /\ UNCHANGED <<items, pc, mode, cur>>

\* Variant: the operation is not added to the stream.
register_without_add(ops_desc) ==
    /\ caller' = "register"
    /\ IF items # <<>>
       THEN /\ items' = items
            /\ pc' = "proc"
            /\ mode' = "Lazy"
            /\ cur' = 1
            /\ procCalls' = <<[item |-> 1, mode |-> "Lazy",
                               len |-> Len(items[1].stream),
                               logLen |-> Len(execLog)]>>
       ELSE /\ procCalls' = <<>>
            /\ UNCHANGED <<items, pc, mode, cur>>

\* MultiStream::register up to the entry into Processor::process.
register(ops_desc) ==
    /\ caller' = "register"
    /\ IF items # <<>>
       THEN /\ items' = [items EXCEPT ![1].stream = StreamAdd(@, ops_desc)]
            /\ pc' = "proc"
            /\ mode' = "Lazy"
            /\ cur' = 1
            /\ procCalls' = <<[item |-> 1, mode |-> "Lazy",
                               len |-> Len(items[1].stream) + 1,
                               logLen |-> Len(execLog)]>>
       ELSE /\ procCalls' = <<>>
            /\ UNCHANGED <<items, pc, mode, cur>>

\* Variant: the streams are processed in Lazy mode.
drain_lazy ==
    /\ caller' = "drain"
    /\ IF items # <<>>
       THEN /\ pc' = "proc"
            /\ mode' = "Lazy"
            /\ cur' = 1
            /\ procCalls' = <<[item |-> 1, mode |-> "Lazy",
                               len |-> Len(items[1].stream),
                               logLen |-> Len(execLog)]>>
       ELSE /\ procCalls' = <<>>
            /\ UNCHANGED <<pc, mode, cur>>

\* MultiStream::drain up to the entry into process for the first item.
drain ==
    /\ caller' = "drain"
    /\ IF items # <<>>
       THEN /\ pc' = "proc"
            /\ mode' = "Sync"
            /\ cur' = 1
            /\ procCalls' = <<[item |-> 1, mode |-> "Sync",
                               len |-> Len(items[1].stream),
                               logLen |-> Len(execLog)]>>
       ELSE /\ procCalls' = <<>>
            /\ UNCHANGED <<pc, mode, cur>>

Register ==
    \E ops_desc \in StreamOps :
        /\ pc = "idle"
        /\ ~panicked
        /\ Len(registered) < MaxRegs
        /\ register(ops_desc)
        /\ registered' = Append(registered,
                                [op |-> ops_desc, nopts |-> Len(catalog)])
        /\ stopped' = FALSE
        /\ UNCHANGED <<catalog, handles, execLog>>
        /\ UNCHANGED indexVars

Drain ==
    /\ pc = "idle"
    /\ ~panicked
    /\ drain
    /\ stopped' = FALSE
    /\ UNCHANGED <<items, catalog, handles, execLog, registered>>
    /\ UNCHANGED indexVars

----------------------------------------------------------------------------
\* Processor::process, one loop iteration per step.

\* Step d: a match is found; the fused optimization is executed on the
\* concrete operations and exactly the matched length is consumed.
ProcExecute ==
    /\ pc = "proc" /\ ~stopped
    /\ CurStream # <<>>
    /\ \E id \in {BestMatch(CurStream)} :
          /\ id # NoMatch
          /\ \E n \in {Len(catalog[id + 1])} :
             \E bound \in {SubSeq(CurStream, 1, n)} :
                /\ handles' = ExecFused(handles, id, bound)
                /\ execLog' = Append(execLog,
                       [kind |-> "fused", id |-> id, ops |-> bound])
                /\ items' = [items EXCEPT ![cur].stream = Consume(@, n)]
    /\ UNCHANGED <<catalog, registered, pc, mode, caller, cur, stopped,
                   procCalls>>
    /\ UNCHANGED indexVars

\* Variant: a Lazy invocation goes on after the fallback.
ProcFallback_going_on ==
    /\ pc = "proc" /\ ~stopped
    /\ CurStream # <<>>
    /\ BestMatch(CurStream) = NoMatch
    /\ handles' = ExecRaw(handles, CurStream[1])
    /\ execLog' = Append(execLog, [kind |-> "raw", id |-> NoMatch,
                                   ops |-> <<CurStream[1]>>])
    /\ items' = [items EXCEPT ![cur].stream = Consume(@, 1)]
    /\ stopped' = FALSE
    /\ UNCHANGED <<catalog, registered, pc, mode, caller, cur, procCalls>>
    /\ UNCHANGED indexVars

\* Steps e and f: no match; one raw operation is executed and consumed, and
\* a Lazy invocation stops after this fallback.
ProcFallback ==
    /\ pc = "proc" /\ ~stopped
    /\ CurStream # <<>>
    /\ BestMatch(CurStream) = NoMatch
    /\ handles' = ExecRaw(handles, CurStream[1])
    /\ execLog' = Append(execLog, [kind |-> "raw", id |-> NoMatch,
                                   ops |-> <<CurStream[1]>>])
    /\ items' = [items EXCEPT ![cur].stream = Consume(@, 1)]
    /\ stopped' = (mode = "Lazy")
    /\ UNCHANGED <<catalog, registered, pc, mode, caller, cur, procCalls>>
    /\ UNCHANGED indexVars

\* Step f: a Lazy invocation may defer instead of falling back.
ProcDefer ==
    /\ pc = "proc" /\ ~stopped
    /\ mode = "Lazy"
    /\ CurStream # <<>>
    /\ BestMatch(CurStream) = NoMatch
    /\ stopped' = TRUE
    /\ UNCHANGED <<items, catalog, handles, execLog, registered, pc, mode,
                   caller, cur, procCalls>>
    /\ UNCHANGED indexVars

\* process returns; drain goes on with the next item, if any.
ProcReturn ==
    /\ pc = "proc"
    /\ stopped \/ CurStream = <<>>
    /\ stopped' = FALSE
    /\ IF caller = "drain" /\ cur < Len(items)
       THEN /\ cur' = cur + 1
            /\ procCalls' = Append(procCalls,
                    [item |-> cur + 1, mode |-> "Sync",
                     len |-> Len(items[cur + 1].stream),
                               logLen |-> Len(execLog)])
            /\ UNCHANGED <<pc, mode>>
       ELSE /\ pc' = "idle"
            /\ cur' = 0
            /\ UNCHANGED <<mode, procCalls>>
    /\ UNCHANGED <<items, catalog, handles, execLog, registered, caller>>
    /\ UNCHANGED indexVars

Init == InitIndexVars /\ InitStreamVars

Next ==
    \/ StoreRegister
    \/ Register
    \/ Drain
    \/ ProcExecute
    \/ ProcFallback
    \/ ProcDefer
    \/ ProcReturn

Spec == Init /\ [][Next]_vars

\* register and drain run to completion on the calling thread: a process
\* invocation that can take its next step takes it.
SpecFair ==
    /\ Init /\ [][Next]_vars
    /\ WF_vars(ProcExecute \/ ProcFallback \/ ProcReturn)

----------------------------------------------------------------------------
\* Properties of the index (checked under SpecIndex).

\* Identifiers of the successful inserts whose first operation equals ops,
\* in call order.
RECURSIVE IdsStartingWith(_, _)
IdsStartingWith(hist, ops) ==
    IF hist = <<>> THEN <<>>
    ELSE (IF OpEq(Head(hist).first, ops) THEN <<Head(hist).id>> ELSE <<>>)
            \o IdsStartingWith(Tail(hist), ops)

\* C1 as stated: after insert(S, X), find(S[0]) contains X, now and after
\* any further inserts, for every operation descriptor S[0] whatsoever.
C1_FindContainsInserted_AnyOp ==
    \A i \in DOMAIN inserted :
        Contains(find_starting_with(inserted[i].first), inserted[i].id)

\* C1 amended: after insert(S, X) with S[0] equal to itself (no NaN scalar
\* operand), find(S[0]) contains X, now and after any further inserts.
C1_FindContainsInserted ==
    \A i \in DOMAIN inserted :
        OpEq(inserted[i].first, inserted[i].first)
            => Contains(find_starting_with(inserted[i].first), inserted[i].id)

C1_Witness ==
    /\ Len(inserted) = 3
    /\ inserted[1].first.tag \in ScalarTags
    /\ OpEq(inserted[1].first, inserted[1].first)
    /\ OpEq(inserted[2].first, inserted[1].first)
    /\ inserted[2].id # inserted[1].id
    /\ stream_key(inserted[3].first) = stream_key(inserted[1].first)
    /\ Contains(find_starting_with(inserted[1].first), inserted[1].id)

\* C2: for every operation, find returns exactly the identifiers inserted
\* with a structurally equal first operation, in insertion order.
C2_FindInInsertionOrder ==
    \A ops \in Ops : find_starting_with(ops) = IdsStartingWith(inserted, ops)

C2_Witness ==
    /\ Len(inserted) = 3
    /\ inserted[1].first = ops_1
    /\ inserted[2].first = ops_3
    /\ inserted[3].first = ops_1
    /\ inserted[1].id = 1
    /\ inserted[3].id = 0
    /\ find_starting_with(ops_1) = <<1, 0>>

\* C3: every identifier find(op) returns was inserted with a first operation
\* structurally equal to op, whether or not the hashes of unequal first
\* operations collide.
C3_FindOnlyEqualStarters ==
    \A ops \in Ops :
        \A k \in DOMAIN find_starting_with(ops) :
            \E i \in DOMAIN inserted :
                /\ inserted[i].id = find_starting_with(ops)[k]
                /\ OpEq(inserted[i].first, ops)

C3_Witness ==
    /\ Len(inserted) = 3
    /\ inserted[1].first = ops_1 /\ inserted[1].id = 0
    /\ inserted[2].first = ops_3 /\ inserted[2].id = 1
    /\ stream_key(ops_1) = stream_key(ops_3)
    /\ stream_key(inserted[3].first) # stream_key(ops_1)
    /\ find_starting_with(ops_1) = <<0>>
    /\ find_starting_with(ops_3) = <<1>>

\* C4: a find call leaves mapping and starters unchanged, and a find
\* repeated with the same operation returns the same result.
C4_FindReadOnlyIdempotent ==
    [][lastCall'.kind = "find" =>
          /\ mapping' = mapping
          /\ starters' = starters
          /\ (lastCall.kind = "find" /\ lastCall.op = lastCall'.op)
                => found' = found]_vars

C4_Witness ==
    /\ lastCall.kind = "find"
    /\ lastCall.repeated
    /\ Len(found) = 2

\* C5: insert with an empty sequence fails, and the index content is the
\* same as before the call.
C5_EmptyInsertFailsUntouched ==
    [][(~panicked /\ lastCall'.kind = "insert" /\ lastCall'.len = 0) =>
          /\ panicked'
          /\ mapping' = mapping
          /\ starters' = starters]_vars

C5_Witness ==
    /\ panicked
    /\ lastCall.kind = "insert"
    /\ lastCall.len = 0
    /\ Len(starters) = 2

----------------------------------------------------------------------------
\* Properties of the Stream Manager (checked under Spec).

RegOps == [i \in DOMAIN registered |-> registered[i].op]

RECURSIVE Flatten(_)
Flatten(log) ==
    IF log = <<>> THEN <<>> ELSE Head(log).ops \o Flatten(Tail(log))

FusedCount == Cardinality({i \in DOMAIN execLog : execLog[i].kind = "fused"})

RawCount == Cardinality({i \in DOMAIN execLog : execLog[i].kind = "raw"})

Drained == pc = "idle" /\ caller = "drain"

\* C6: when drain has returned, the processor has been invoked in Sync mode
\* on every owned stream, once each, and every stream is empty.
C6_DrainLeavesStreamsEmpty ==
    Drained =>
        /\ \A i \in DOMAIN items : items[i].stream = <<>>
        /\ Len(procCalls) = Len(items)
        /\ \A i \in DOMAIN procCalls :
              procCalls[i].item = i /\ procCalls[i].mode = "Sync"

C6_Witness ==
    /\ Drained
    /\ Len(registered) = 2
    /\ procCalls[1].len = 2
    /\ items[1].stream = <<>>

\* C7: register appends the operation to the tail of the first stream and
\* enters the processor on that stream; during and after the call the
\* processor has been invoked exactly once, in Lazy mode, on the first
\* stream, and no other stream is changed.
C7_RegisterAppendsAndRunsLazyOnce ==
    /\ [](caller = "register" =>
            /\ Len(procCalls) = 1
            /\ procCalls[1].item = 1
            /\ procCalls[1].mode = "Lazy"
            /\ (pc = "proc" => mode = "Lazy" /\ cur = 1))
    /\ [][Len(registered') = Len(registered) + 1 =>
            /\ caller' = "register"
            /\ pc' = "proc"
            /\ Len(items') = Len(items)
            /\ items'[1].stream =
                  Append(items[1].stream, registered'[Len(registered')].op)
            /\ \A i \in DOMAIN items \ {1} : items'[i] = items[i]]_vars

C7_Witness ==
    /\ pc = "idle"
    /\ caller = "register"
    /\ Len(registered) = 2
    /\ procCalls[1].len = 2
    /\ Len(execLog) = 1
    /\ items[1].stream = <<registered[2].op>>

\* C8: the executed units followed by the pending operations are the
\* registered operations in registration order; after a drain the executed
\* units alone cover every registered operation exactly once, in order.
C8_ExecutedInRegistrationOrder ==
    /\ Len(items) = 1
    /\ Flatten(execLog) \o items[1].stream = RegOps
    /\ Drained => Flatten(execLog) = RegOps

C8_Witness ==
    /\ Drained
    /\ Len(registered) = 2
    /\ Len(execLog) = 2
    /\ execLog[1].kind = "raw"
    /\ execLog[2].kind = "fused"
    /\ procCalls[1].len = 2

C10_Scenario ==
    /\ catalog = <<<<ops_1>>>>
    /\ registered = <<[op |-> ops_1, nopts |-> 1]>>
    /\ Drained

C10_EndToEndOneFused ==
    C10_Scenario =>
        /\ items[1].stream = <<>>
        /\ FusedCount = 1
        /\ RawCount = 0

C10_Witness ==
    /\ C10_Scenario
    /\ execLog = <<[kind |-> "fused", id |-> 0, ops |-> <<ops_1>>]>>
    /\ find_starting_with(ops_1) = <<0>>

----------------------------------------------------------------------------
\* Further properties of the index (checked under SpecIndex).

\* A step that is a successful insert call with first operation first.
InsertStep(first, id) ==
    /\ lastCall'.kind = "insert"
    /\ inserted' = Append(inserted, [first |-> first, id |-> id])

\* C11 as stated: insert(S, id) leaves find(op) unchanged for every op not
\* equal to S[0], and find(S[0]) becomes its old value with id appended.
C11_InsertFrame_AnyOp ==
    [][\A first \in Ops, id \in Ids :
          InsertStep(first, id) =>
             /\ \A ops \in Ops :
                   ~OpEq(ops, first)
                       => find_starting_with(ops)' = find_starting_with(ops)
             /\ find_starting_with(first)' =
                   Append(find_starting_with(first), id)]_vars

\* C11 amended: insert(S, id) leaves find(op) unchanged for every op not
\* structurally equal to S[0] (S[0] itself when it carries a NaN scalar),
\* and for every op structurally equal to S[0] the new result is the old
\* result with id appended at the end.
C11_InsertFrame ==
    [][\A first \in Ops, id \in Ids :
          InsertStep(first, id) =>
             \A ops \in Ops :
                find_starting_with(ops)' =
                    IF OpEq(ops, first)
                    THEN Append(find_starting_with(ops), id)
                    ELSE find_starting_with(ops)]_vars

C11_Witness ==
    /\ Len(inserted) = 3
    /\ lastCall.kind = "insert"
    /\ inserted[1].first = ops_1
    /\ inserted[2].first = ops_3
    /\ inserted[3].first = ops_3
    /\ inserted[2].id # inserted[3].id
    /\ find_starting_with(ops_1) = <<inserted[1].id>>
    /\ find_starting_with(ops_3) = <<inserted[2].id, inserted[3].id>>

\* Bucket entries, as (key, position) pairs, that point to slot s.
EntriesOf(s) ==
    {e \in UNION {{<<k, i>> : i \in DOMAIN mapping[k]} : k \in DOMAIN mapping} :
        mapping[e[1]][e[2]].index = s}

\* C12: every slot of starters is referenced by exactly one bucket entry.
C12_SlotHasOneEntry ==
    \A s \in 0..(Len(starters) - 1) : Cardinality(EntriesOf(s)) = 1

C12_Witness ==
    /\ Len(starters) = 3
    /\ \E k \in DOMAIN mapping : Len(mapping[k]) = 2
    /\ Cardinality(DOMAIN mapping) = 2

RECURSIVE TotalIds(_)
TotalIds(slots) ==
    IF slots = <<>> THEN 0 ELSE Len(Head(slots)) + TotalIds(Tail(slots))

IsPrefix(a, b) == Len(a) <= Len(b) /\ SubSeq(b, 1, Len(a)) = a

\* C16: the slots together hold as many identifier occurrences as there were
\* successful inserts, no slot is empty, and a step never removes or moves
\* an occurrence: every slot keeps its content as a prefix and the total
\* grows by one per insert.
C16_IdsConserved ==
    /\ [](/\ TotalIds(starters) = Len(inserted)
          /\ \A i \in DOMAIN starters : starters[i] # <<>>)
    /\ [][/\ Len(starters') >= Len(starters)
          /\ \A i \in DOMAIN starters : IsPrefix(starters[i], starters'[i])
          /\ \A first \in Ops, id \in Ids :
                InsertStep(first, id) =>
                    /\ TotalIds(starters') = TotalIds(starters) + 1
                    /\ \E i \in DOMAIN starters' :
                          /\ starters'[i][Len(starters'[i])] = id
                          /\ \A j \in DOMAIN starters' \ {i} :
                                j \in DOMAIN starters
                                    /\ starters'[j] = starters[j]]_vars

C16_Witness ==
    /\ Len(inserted) = 3
    /\ Len(starters) = 2
    /\ Len(starters[1]) = 2
    /\ inserted[2].first = ops_nan

\* C18: every slot index stored in a bucket entry is smaller than the number
\* of slots and every bucket is non-empty; the only failure is the one of an
\* insert with an empty sequence.
C18_BucketIndexesInRange ==
    /\ \A k \in DOMAIN mapping :
          /\ mapping[k] # <<>>
          /\ \A i \in DOMAIN mapping[k] : mapping[k][i].index < Len(starters)
    /\ panicked => (lastCall.kind = "insert" /\ lastCall.len = 0)

C18_Witness ==
    /\ Len(inserted) = 3
    /\ Len(starters) = 1
    /\ Len(starters[1]) = 3
    /\ lastCall.kind = "find"
    /\ Len(found) = 3

----------------------------------------------------------------------------
\* Properties of the Processor loop (checked under Spec and SpecFair).

LastUnit(log) == log[Len(log)]

\* C13: the optimization applied in a loop iteration is one of the
\* candidates the index returns for the stream's first operation, its
\* defining sequence is a prefix of the relative stream, no matching
\* candidate is longer, and among the matching candidates of the same length
\* it is the earliest registered; exactly its length is consumed.
C13_LongestThenEarliest ==
    [][\A id \in 0..(Len(catalog) - 1) :
          (/\ Len(execLog') = Len(execLog) + 1
           /\ LastUnit(execLog').kind = "fused"
           /\ LastUnit(execLog').id = id) =>
             LET s == items[cur].stream
                 cands == find_starting_with(Canon(s[1]))
                 def == catalog[id + 1]
             IN /\ Contains(cands, id)
                /\ IsPrefixMatch(def, s)
                /\ Len(items'[cur].stream) = Len(s) - Len(def)
                /\ \A k \in DOMAIN cands :
                      IsPrefixMatch(catalog[cands[k] + 1], s) =>
                          \/ Len(catalog[cands[k] + 1]) < Len(def)
                          \/ /\ Len(catalog[cands[k] + 1]) = Len(def)
                             /\ id <= cands[k]]_vars

C13_Witness ==
    /\ catalog = <<<<ops_1>>, <<ops_1, Canon(ops_2)>>>>
    /\ find_starting_with(ops_1) = <<0, 1>>
    /\ Len(execLog) = 1
    /\ execLog[1].kind = "fused"
    /\ execLog[1].id = 1
    /\ execLog[1].ops = <<ops_1, ops_2>>

\* C14: a Sync invocation ends, with every stream empty; every loop
\* iteration consumes the operations of the unit it executes, at least one
\* and exactly one on fallback; a Sync invocation does not return from a
\* non-empty stream.
C14_SyncTerminatesEmpty ==
    /\ (pc = "proc" /\ mode = "Sync")
          ~> (pc = "idle" /\ \A i \in DOMAIN items : items[i].stream = <<>>)
    /\ [][execLog' # execLog =>
            /\ Len(execLog') = Len(execLog) + 1
            /\ Len(LastUnit(execLog').ops) >= 1
            /\ LastUnit(execLog').kind = "raw"
                  => Len(LastUnit(execLog').ops) = 1
            /\ Len(items'[cur].stream) =
                  Len(items[cur].stream) - Len(LastUnit(execLog').ops)]_vars
    /\ [][(pc = "proc" /\ mode = "Sync" /\ (pc' = "idle" \/ cur' # cur))
            => items[cur].stream = <<>>]_vars

C14_Witness ==
    /\ Drained
    /\ procCalls[1].len = 2
    /\ procCalls[1].logLen = 0
    /\ Len(execLog) = 2
    /\ execLog[1].kind = "raw"
    /\ execLog[2].kind = "raw"
    /\ items[1].stream = <<>>

\* Units executed by the last process invocation.
UnitsOfLastCall ==
    SubSeq(execLog, procCalls[Len(procCalls)].logLen + 1, Len(execLog))

\* C15: a Lazy invocation executes at most one raw operation, nothing after
\* it, and the operations it leaves in the stream are the last registered
\* ones in registration order.
C15_LazyOneFallback ==
    (procCalls # <<>> /\ procCalls[Len(procCalls)].mode = "Lazy") =>
        LET p == procCalls[Len(procCalls)]
            units == UnitsOfLastCall
            raws == {i \in DOMAIN units : units[i].kind = "raw"}
            left == items[p.item].stream
        IN /\ Cardinality(raws) <= 1
           /\ \A i \in raws : i = Len(units)
           /\ Len(left) = p.len - Len(Flatten(units))
           /\ left = SubSeq(RegOps, Len(RegOps) - Len(left) + 1, Len(RegOps))

C15_Witness ==
    /\ pc = "idle"
    /\ caller = "register"
    /\ procCalls[1].len = 2
    /\ procCalls[1].logLen = 0
    /\ UnitsOfLastCall = <<[kind |-> "raw", id |-> NoMatch, ops |-> <<ops_4>>]>>
    /\ items[1].stream = <<ops_2>>
    /\ catalog # <<>>

\* C17: the manager owns exactly one item; every process invocation is on
\* that item, one per call; no registered operation is lost.
C17_ExactlyOneItem ==
    /\ Len(items) = 1
    /\ pc = "proc" => cur = 1
    /\ caller # "none" =>
          (Len(procCalls) = 1 /\ procCalls[1].item = 1)
    /\ Len(Flatten(execLog)) + Len(items[1].stream) = Len(registered)

C17_Witness ==
    /\ Drained
    /\ Len(items) = 1
    /\ Len(registered) = 2
    /\ procCalls[1].len = 1
    /\ procCalls[1].logLen = 1
    /\ Len(execLog) = 2

====
